---- MODULE Spec2Model ----
(***************************************************************************)
(* rollup-plugin-typescript: the plugin instance returned by typescript()  *)
(* and its three hooks (options, resolveId, transform), in the four        *)
(* generations of the source that the tree holds:                          *)
(*   "g1"  src/index.ts lines 165-287   (no plugin options, '.ts' only)    *)
(*   "g2"  src/unnamed/part_001         (extensions .ts/.tsx, inline loop) *)
(*   "g3"  src/index.ts lines 1-163     (resolve() + directory index)      *)
(*   "g4"  src/unnamed/part_000         (extension remapping, live sink)   *)
(*                                                                         *)
(* A string is a sequence of tokens: "." and "/" are one token each, every *)
(* other token stands for a non-empty run of characters holding neither.   *)
(* An optional value is a sequence of length 0 (undefined) or 1.           *)
(***************************************************************************)
EXTENDS Integers, Sequences, FiniteSets, TLC

Max(S) == CHOOSE m \in S : \A n \in S : n <= m
Min(S) == CHOOSE m \in S : \A n \in S : m <= n

Undefined == <<>>
Def(v) == <<v>>
IsDef(o) == o # <<>>
Val(o) == o[1]

(***************************************************************************)
(* node:path (posix), as the hooks use it.                                 *)
(***************************************************************************)
cwd == <<"/", "p">>

\* path.extname: the extension of the last path component, trailing
\* separators ignored; '' for a component that is a dot-file or '..'.
extname(path) ==
  LET nonSlash  == {i \in 1..Len(path) : path[i] # "/"}
      end       == IF nonSlash = {} THEN 0 ELSE Max(nonSlash)
      slashes   == {i \in 1..end : path[i] = "/"}
      startPart == IF slashes = {} THEN 1 ELSE Max(slashes) + 1
      dots      == {i \in startPart..end : path[i] = "."}
      startDot  == IF dots = {} THEN 0 ELSE Max(dots)
      preDotState == IF startDot = 0 \/ startDot = startPart THEN 0
                     ELSE IF path[startPart] = "." THEN 1 ELSE -1
  IN  IF \/ startDot = 0
         \/ end = 0
         \/ preDotState = 0
         \/ (preDotState = 1 /\ startDot = end /\ startDot = startPart + 1)
      THEN <<>>
      ELSE SubSeq(path, startDot, end)

\* path.dirname
dirname(path) ==
  IF Len(path) = 0 THEN <<".">>
  ELSE LET hasRoot  == path[1] = "/"
           nonSlash == {i \in 2..Len(path) : path[i] # "/"}
           lastNS   == IF nonSlash = {} THEN 0 ELSE Max(nonSlash)
           seps     == {i \in 2..lastNS : path[i] = "/"}
           end      == IF seps = {} THEN 0 ELSE Max(seps)
       IN  IF end = 0 THEN (IF hasRoot THEN <<"/">> ELSE <<".">>)
           ELSE IF hasRoot /\ end = 2 THEN <<"/", "/">>
           ELSE SubSeq(path, 1, end - 1)

RECURSIVE Split(_)
Split(path) ==
  LET S == {i \in 1..Len(path) : path[i] = "/"}
  IN  IF S = {} THEN <<path>>
      ELSE <<SubSeq(path, 1, Min(S) - 1)>>
             \o Split(SubSeq(path, Min(S) + 1, Len(path)))

RECURSIVE NormSegs(_, _, _)
NormSegs(segs, acc, allowAboveRoot) ==
  IF segs = <<>> THEN acc
  ELSE LET s == Head(segs)
           rest == Tail(segs)
       IN  IF s = <<>> \/ s = <<".">>
             THEN NormSegs(rest, acc, allowAboveRoot)
           ELSE IF s = <<".", ".">>
             THEN IF acc # <<>> /\ acc[Len(acc)] # <<".", ".">>
                    THEN NormSegs(rest, SubSeq(acc, 1, Len(acc) - 1), allowAboveRoot)
                  ELSE IF allowAboveRoot
                    THEN NormSegs(rest, Append(acc, s), allowAboveRoot)
                  ELSE NormSegs(rest, acc, allowAboveRoot)
           ELSE NormSegs(rest, Append(acc, s), allowAboveRoot)

RECURSIVE JoinSegs(_)
JoinSegs(segs) ==
  IF segs = <<>> THEN <<>>
  ELSE IF Len(segs) = 1 THEN segs[1]
  ELSE segs[1] \o <<"/">> \o JoinSegs(Tail(segs))

\* normalizeString: '.' and empty segments dropped, '..' pops a segment.
normalizeString(path, allowAboveRoot) ==
  JoinSegs(NormSegs(Split(path), <<>>, allowAboveRoot))

\* path.resolve(from, to): right to left until an absolute path is met,
\* the working directory last.
pathResolve(from, to) ==
  LET s1   == IF Len(to) = 0 THEN <<>> ELSE to \o <<"/">>
      abs1 == Len(to) > 0 /\ to[1] = "/"
      s2   == IF abs1 \/ Len(from) = 0 THEN s1 ELSE from \o <<"/">> \o s1
      abs2 == abs1 \/ (Len(from) > 0 /\ from[1] = "/")
      s3   == IF abs2 THEN s2 ELSE cwd \o <<"/">> \o s2
  IN  <<"/">> \o normalizeString(s3, FALSE)

\* path.join(a, b) for a non-empty b: the normalized a + '/' + b.
pathJoin(a, b) ==
  LET joined     == IF Len(a) = 0 THEN b ELSE a \o <<"/">> \o b
      isAbsolute == joined[1] = "/"
      trailing   == joined[Len(joined)] = "/"
      body       == normalizeString(joined, ~isAbsolute)
      tailed     == IF Len(body) = 0
                      THEN (IF isAbsolute THEN <<>>
                            ELSE IF trailing THEN <<".", "/">> ELSE <<".">>)
                    ELSE IF trailing THEN body \o <<"/">> ELSE body
  IN  IF isAbsolute THEN <<"/">> \o tailed ELSE tailed

(***************************************************************************)
(* Module constants of the four generations.                               *)
(***************************************************************************)
Generations == {"g1", "g2", "g3", "g4"}

ts  == <<".", "ts">>
tsx == <<".", "tsx">>
cts == <<".", "cts">>
mts == <<".", "mts">>

\* const extensions = ['.ts', '.tsx'] (g2, g3); g1 tests only '.ts'.
extensions(g) == IF g = "g1" THEN <<ts>> ELSE <<ts, tsx>>

\* const tsExtensions = new Set([".ts", ".tsx", ".cts", ".mts"]) (g4)
tsExtensions == {ts, tsx, cts, mts}

\* const jsExtensions = { ".js": ".ts", ... } (g4)
jsExtensions ==
  [e \in {<<".", "js">>, <<".", "jsx">>, <<".", "cjs">>, <<".", "mjs">>} |->
     CASE e = <<".", "js">>  -> ts
       [] e = <<".", "jsx">> -> tsx
       [] e = <<".", "cjs">> -> cts
       [] e = <<".", "mjs">> -> mts]

\* String.prototype.endsWith('.ts')
endsWithTs(s) == Len(s) >= 2 /\ SubSeq(s, Len(s) - 1, Len(s)) = ts

\* A test that would take every file for TypeScript, for contrast.
isTsFile_Any(g, filename) == TRUE

\* isTsFile(filename); g1 writes the test inline as filename.endsWith('.ts').
isTsFile(g, filename) ==
  CASE g = "g1" -> endsWithTs(filename)
    [] g = "g4" -> extname(filename) \in tsExtensions
    [] OTHER    -> \E i \in 1..Len(extensions(g)) : extensions(g)[i] = extname(filename)

(***************************************************************************)
(* resolveId.  disk is the set of absolute paths that exist; the result    *)
(* records the existence probes made, in order.                            *)
(***************************************************************************)
RECURSIVE probeEach(_, _, _)
probeEach(candidates, disk, probes) ==
  IF candidates = <<>> THEN [id |-> Undefined, probes |-> probes]
  ELSE IF Head(candidates) \in disk
    THEN [id |-> Def(Head(candidates)), probes |-> Append(probes, Head(candidates))]
  ELSE probeEach(Tail(candidates), disk, Append(probes, Head(candidates)))

\* The loop over extensions: g3's resolve(), g2's inline loop, g1's single probe.
resolveLoop(g, importee, importer, disk, probes) ==
  probeEach([i \in 1..Len(extensions(g)) |->
               pathResolve(dirname(importer), importee \o extensions(g)[i])],
            disk, probes)

\* importee.replace(/\.[^.]+$/, (ext) => jsExtensions[ext]): the match starts
\* at the last dot of the whole string and runs to its end.
replaceExtension(importee) ==
  LET dots == {i \in 1..Len(importee) : importee[i] = "."}
      d    == IF dots = {} THEN 0 ELSE Max(dots)
      m    == SubSeq(importee, d, Len(importee))
  IN  IF d = 0 \/ d = Len(importee) THEN importee
      ELSE SubSeq(importee, 1, d - 1)
             \o (IF m \in DOMAIN jsExtensions THEN jsExtensions[m]
                 ELSE <<"undefined">>)

\* g4's resolve(importee, importer)
resolveRemap(importee, importer, disk) ==
  IF extname(importee) \notin DOMAIN jsExtensions
    THEN [id |-> Undefined, probes |-> <<>>]
  ELSE probeEach(<<pathResolve(dirname(importer), replaceExtension(importee))>>,
                 disk, <<>>)

Returned(r) == [outcome |-> "return", id |-> r.id, probes |-> r.probes]
Deferred    == [outcome |-> "return", id |-> Undefined, probes |-> <<>>]
TypeError   == [outcome |-> "TypeError", id |-> Undefined, probes |-> <<>>]

\* The importer test of the guard: g1 calls importer.endsWith and g2
\* path.extname(importer) on whatever was passed; g3 and g4 test !importer first.
importerGuard(g, importer) ==
  CASE g \in {"g1", "g2"} ->
         IF ~IsDef(importer) THEN "TypeError"
         ELSE IF isTsFile(g, Val(importer)) THEN "pass" ELSE "defer"
    [] OTHER ->
         IF ~IsDef(importer) \/ Val(importer) = <<>> THEN "defer"
         ELSE IF isTsFile(g, Val(importer)) THEN "pass" ELSE "defer"

resolveId(g, importee, importer, disk) ==
  IF g # "g4" /\ extname(importee) # <<>> THEN Deferred
  ELSE CASE importerGuard(g, importer) = "TypeError" -> TypeError
         [] importerGuard(g, importer) = "defer" -> Deferred
         [] OTHER ->
            IF g = "g4" THEN Returned(resolveRemap(importee, Val(importer), disk))
            ELSE LET first == resolveLoop(g, importee, Val(importer), disk, <<>>)
                 IN  IF g # "g3" \/ IsDef(first.id) THEN Returned(first)
                     ELSE Returned(resolveLoop(g, pathJoin(importee, <<"index">>),
                                               Val(importer), disk, first.probes))

(***************************************************************************)
(* Compiler options.  An options object is a function from option names to *)
(* values; JSON values and converted values are both written as strings.   *)
(***************************************************************************)
\* const compilerOptions = Object.freeze({...}): the fixed overlay.  g1
\* assigns the same four keys one by one.
compilerOptionsOverlay(g) ==
  [importHelpers    |-> "true",
   sourceMap        |-> "true",
   module           |-> IF g \in {"g1", "g2"} THEN "ES2015" ELSE "ES2022",
   moduleResolution |-> IF g = "g4" THEN "Bundler" ELSE "NodeJs"]

\* The opposite precedence, for contrast: the target wins on a key of both.
ObjectAssign_TargetWins(target, source) ==
  [k \in DOMAIN target \cup DOMAIN source |->
     IF k \in DOMAIN target THEN target[k] ELSE source[k]]

\* Object.assign(target, source): the source wins on a key of both.
ObjectAssign(target, source) ==
  [k \in DOMAIN target \cup DOMAIN source |->
     IF k \in DOMAIN source THEN source[k] ELSE target[k]]

EmptyObject == [k \in {} |-> ""]

Diagnostic(category, messageText, file, start) ==
  [category |-> category, messageText |-> messageText, file |-> file, start |-> start]

\* The compiler's option table, as far as the checked configurations use it:
\* the JSON values an option accepts and what each converts to.
optionDeclarations ==
  [strict           |-> [true |-> "true", false |-> "false"],
   sourceMap        |-> [true |-> "true", false |-> "false"],
   importHelpers    |-> [true |-> "true", false |-> "false"],
   module           |-> [commonjs |-> "CommonJS", es2022 |-> "ES2022"],
   moduleResolution |-> [node |-> "NodeJs", classic |-> "Classic"]]

OptionOrder == <<"strict", "sourceMap", "importHelpers", "module",
                 "moduleResolution", "bogus">>

ConvertsOk(json, k) ==
  k \in DOMAIN optionDeclarations /\ json[k] \in DOMAIN optionDeclarations[k]

\* ts.convertCompilerOptionsFromJson: the options that convert, and one
\* Error diagnostic for each key that is unknown or has a bad value.
convertCompilerOptionsFromJson(json) ==
  [options |-> [k \in {x \in DOMAIN json : ConvertsOk(json, x)} |->
                  optionDeclarations[k][json[k]]],
   errors  |-> LET bad == SelectSeq(OptionOrder,
                            LAMBDA k : k \in DOMAIN json /\ ~ConvertsOk(json, k))
               IN  [i \in 1..Len(bad) |->
                      Diagnostic("Error", bad[i], Undefined, Undefined)]]

\* What fs.readFile(configFilename) finds, and for a well-formed file what
\* ts.parseJsonConfigFileContent adds to the conversion errors.
ConfigFile(read, text, json, errors) ==
  [read |-> read, text |-> text, json |-> json, errors |-> errors]

NoRead == ConfigFile("none", "", EmptyObject, <<>>)

\* getCompilerOptions(options): ok with the value it resolves to, or the
\* diagnostics it rejects with.  iterable is FALSE when the rejection is the
\* raw read failure (g1 never wraps it in an array).
Resolved(value, read) ==
  [ok |-> TRUE, value |-> value, thrown |-> <<>>, iterable |-> TRUE, read |-> read]
Rejected(thrown, read) ==
  [ok |-> FALSE, value |-> EmptyObject, thrown |-> thrown, iterable |-> TRUE, read |-> read]
RejectedRaw ==
  [ok |-> FALSE, value |-> EmptyObject, thrown |-> <<>>, iterable |-> FALSE, read |-> TRUE]

\* A test that would always take the file branch, for contrast.
UsesExplicitOptions_Never(g, pluginOptions) == FALSE

\* Which branch of getCompilerOptions runs: explicit options or the file.
UsesExplicitOptions(g, pluginOptions) ==
  g # "g1" /\ IsDef(pluginOptions) /\ IsDef(Val(pluginOptions).compilerOptions)

\* The last two statements: reject with parsed.errors, else overlay.
finishOptions(g, parsed, read) ==
  IF Len(parsed.errors) > 0 THEN Rejected(parsed.errors, read)
  ELSE Resolved(ObjectAssign(parsed.options, compilerOptionsOverlay(g)), read)

parseJsonConfigFileContent(file) ==
  LET c == convertCompilerOptionsFromJson(file.json)
  IN  [options |-> c.options, errors |-> c.errors \o file.errors]

getCompilerOptions(g, pluginOptions, file) ==
  IF UsesExplicitOptions(g, pluginOptions)
    THEN finishOptions(g, convertCompilerOptionsFromJson(
                            Val(Val(pluginOptions).compilerOptions)), FALSE)
  ELSE IF file.read # "ok"
    THEN IF g = "g1" THEN RejectedRaw
         ELSE IF file.read # "ENOENT"
           THEN Rejected(<<Diagnostic("Error", file.read, Undefined, Undefined)>>, TRUE)
         ELSE finishOptions(g, [options |-> EmptyObject, errors |-> <<>>], TRUE)
  ELSE IF file.text = "malformed"
    THEN Rejected(<<Diagnostic("Error", "parse", Undefined, Undefined)>>, TRUE)
  ELSE IF file.text = "" /\ g # "g1"
    THEN finishOptions(g, [options |-> EmptyObject, errors |-> <<>>], TRUE)
  ELSE finishOptions(g, parseJsonConfigFileContent(file), TRUE)

(***************************************************************************)
(* printDiagnostics.  The sink's error channel (rollup's this.error)       *)
(* throws, so it ends the loop and the hook; warn returns.                 *)
(***************************************************************************)
LineLength == 4

\* file.getLineAndCharacterOfPosition(start) on lines of LineLength characters
getLineAndCharacterOfPosition(start) ==
  [line |-> start \div LineLength, character |-> start % LineLength]

\* const lc = file && diagnostic.start ? ... : null;  const loc = id && lc ? ...
location(diagnostic) ==
  IF /\ IsDef(diagnostic.file)
     /\ IsDef(diagnostic.start) /\ Val(diagnostic.start) # 0
     /\ Val(diagnostic.file) # <<>>
  THEN LET lc == getLineAndCharacterOfPosition(Val(diagnostic.start))
       IN  Def([file |-> Val(diagnostic.file), line |-> lc.line + 1,
                column |-> lc.character])
  ELSE Undefined

SinkCall(channel, diagnostic) ==
  [channel |-> channel, message |-> diagnostic.messageText,
   loc |-> location(diagnostic)]

\* throw { message, id, loc, frame }
Failure(diagnostic) ==
  [message |-> diagnostic.messageText, id |-> diagnostic.file,
   loc |-> location(diagnostic),
   frame |-> IsDef(diagnostic.file) /\ IsDef(location(diagnostic))]

Report(outcome, calls, thrown) ==
  [outcome |-> outcome, calls |-> calls, thrown |-> thrown]

NoReport == Report("none", <<>>, <<>>)

\* A reporter that would forward nothing, for contrast.
reportEach_Silent(diagnostics, context, calls) == Report("return", calls, <<>>)

RECURSIVE reportEach(_, _, _)
reportEach(diagnostics, context, calls) ==
  IF diagnostics = <<>> THEN Report("return", calls, <<>>)
  ELSE LET d == Head(diagnostics)
       IN  IF ~context THEN Report("throw", calls, <<Failure(d)>>)
           ELSE IF d.category = "Error"
             THEN Report("sinkError", Append(calls, SinkCall("error", d)), <<>>)
           ELSE IF d.category = "Warning"
             THEN reportEach(Tail(diagnostics), context,
                             Append(calls, SinkCall("warn", d)))
           ELSE reportEach(Tail(diagnostics), context, calls)

\* A reporter that would forward every diagnostic as a warning, for contrast.
printDiagnostics_AllWarn(diagnostics, context) ==
  Report("return",
         [i \in 1..Len(diagnostics) |-> SinkCall("warn", diagnostics[i])], <<>>)

printDiagnostics(diagnostics, context) == reportEach(diagnostics, context, <<>>)

\* A catch block that would swallow the rejection, for contrast.
reportConfigFailure_Swallow(g, rejection) == Report("return", <<>>, <<>>)

\* The catch block of transform: g4 passes this, the others no context; a
\* rejection that is no array cannot be iterated.
reportConfigFailure(g, rejection) ==
  IF ~rejection.iterable THEN Report("TypeError", <<>>, <<>>)
  ELSE printDiagnostics(rejection.thrown, g = "g4")

(***************************************************************************)
(* The options hook.  An input option is undefined, a string, an array of  *)
(* strings or an object whose values are strings (items, in Object.values  *)
(* order).                                                                 *)
(***************************************************************************)
InputValue(t, str, items) == [t |-> t, s |-> str, items |-> items]
Str(str) == InputValue("string", str, <<>>)

\* !inputOptions.input
IsFalsy(x) == x.t = "undefined" \/ (x.t = "string" /\ x.s = <<>>)

\* The normalisation of inputOptions.input that g2, g3 and g4 share.
normalizeInput(x) ==
  IF x.t = "array" THEN x.items
  ELSE IF x.t = "string" THEN <<x>>
  ELSE x.items

\* options(inputOptions): the new value of input and how the hook ends.
optionsHook(g, x, input) ==
  CASE g = "g1" ->
         [input |-> Def(IF x.t = "array" THEN x.items ELSE <<x>>),
          outcome |-> "undefined"]
    [] g = "g2" ->
         IF x.t = "undefined" THEN [input |-> input, outcome |-> "TypeError"]
         ELSE [input |-> Def(normalizeInput(x)), outcome |-> "undefined"]
    [] OTHER ->
         IF IsFalsy(x) THEN [input |-> input, outcome |-> "undefined"]
         ELSE [input |-> Def(normalizeInput(x)), outcome |-> "null"]

(***************************************************************************)
(* The program and the single-file transpile.                              *)
(***************************************************************************)
a_ts  == <<"a", ".", "ts">>
b_tsx == <<"b", ".", "tsx">>
x_js  == <<"x", ".", "js">>

\* await glob('**/*.d.ts', { ignore: 'node_modules/**' })
declarationFiles == <<Str(<<"types", ".", "d", ".", "ts">>)>>

\* The modules each source file on disk imports (a.ts imports ./b).
imports(file) ==
  IF file = pathResolve(cwd, a_ts) THEN {pathResolve(cwd, b_tsx)} ELSE {}

\* ts.createProgram(files, compilerOptions): serial numbers the programs built.
createProgram(serial, files, options) ==
  [serial |-> serial, files |-> files, options |-> options]

\* Whether the call constructs a program.  With options it does; what the
\* compiler does when handed undefined for its options is not the plugin's
\* to decide: it constructs a program or raises a TypeError on first use.
createProgramOutcomes(options) == IF IsDef(options) THEN {TRUE} ELSE BOOLEAN

\* program.getSourceFile(id): a root file, or a module a root file imports.
getSourceFile(prog, id) ==
  LET roots == {pathResolve(cwd, prog.files[i].s) :
                  i \in {j \in 1..Len(prog.files) : prog.files[j].t = "string"}}
  IN  pathResolve(cwd, id) \in roots \cup UNION {imports(r) : r \in roots}

\* ts.transpileModule(source, { compilerOptions }): a source map is emitted
\* when the options ask for one.
transpileModule(options) ==
  [outputText |-> "js",
   sourceMapText |-> IF IsDef(options) /\ "sourceMap" \in DOMAIN Val(options)
                        /\ Val(options).sourceMap = "true"
                     THEN Def("json") ELSE Undefined]

\* A result that would never carry a map, for contrast.
transformResult_NoMap(output) == [code |-> output.outputText, map |-> Undefined]

\* { code: output.outputText, map: output.sourceMapText ? JSON.parse(...) : null }
transformResult(output) ==
  [code |-> output.outputText,
   map  |-> IF IsDef(output.sourceMapText) THEN Def("map") ELSE Undefined]

(***************************************************************************)
(* Bounds and the inputs drawn.                                            *)
(***************************************************************************)
MaxCalls == 2

Calls == 1..MaxCalls

\* What typescript(options) is called with.
J_strict  == [strict |-> "true"]
J_collide == [strict |-> "true", module |-> "commonjs", sourceMap |-> "false"]
J_unknown == [bogus |-> "1"]

PluginOptions(g) ==
  IF g = "g1" THEN {Undefined}
  ELSE {Undefined,
        Def([compilerOptions |-> Def(J_collide)]),
        Def([compilerOptions |-> Def(J_unknown)])}

\* What a read of tsconfig.json can find.
ConfigFiles ==
  {ConfigFile("ENOENT", "", EmptyObject, <<>>),
   ConfigFile("EACCES", "", EmptyObject, <<>>),
   ConfigFile("ok", "", EmptyObject, <<>>),
   ConfigFile("ok", "malformed", EmptyObject, <<>>),
   ConfigFile("ok", "json", J_strict, <<>>),
   ConfigFile("ok", "json", J_collide, <<>>),
   ConfigFile("ok", "json", J_unknown, <<>>),
   ConfigFile("ok", "json", J_strict,
              <<Diagnostic("Warning", "pattern", Undefined, Undefined)>>)}

\* What inputOptions.input can be.
InputOptions ==
  {InputValue("undefined", <<>>, <<>>),
   Str(<<>>),
   Str(a_ts),
   InputValue("array", <<>>, <<Str(b_tsx), Str(a_ts)>>),
   InputValue("object", <<>>, <<Str(a_ts)>>)}

\* The files transform is called on.
TransformIds == {pathResolve(cwd, a_ts), pathResolve(cwd, b_tsx), pathResolve(cwd, x_js)}

\* The pre-emit diagnostics of a file: none, one of each category, and the
\* mixes of two in which a warning meets an error or another category.
PreEmit(id, c) == Diagnostic(c, c, Def(id), Def(5))

PreEmitDiagnostics(id) ==
  {<<>>,
   <<PreEmit(id, "Warning")>>,
   <<PreEmit(id, "Error")>>,
   <<PreEmit(id, "Suggestion")>>,
   <<PreEmit(id, "Warning"), PreEmit(id, "Error")>>,
   <<PreEmit(id, "Error"), PreEmit(id, "Warning")>>,
   <<PreEmit(id, "Suggestion"), PreEmit(id, "Warning")>>}

(***************************************************************************)
(* The plugin instance.                                                    *)
(***************************************************************************)
VARIABLES
  gen,             \* which generation of the source the instance runs
  options,         \* typescript(options)
  input,           \* let input
  compilerOptions, \* let compilerOptions
  program,         \* let program
  calls,           \* the transform calls: where each is suspended
  configStarts,    \* how many times getCompilerOptions was called
  last             \* the hook step taken last, and what it did

vars == <<gen, options, input, compilerOptions, program, calls, configStarts, last>>

Idle == [pc |-> "idle", id |-> <<>>]
Done == [pc |-> "done", id |-> <<>>]

Init ==
  /\ gen \in Generations
  /\ options \in PluginOptions(gen)
  /\ input = IF gen \in {"g1", "g2"} THEN Undefined ELSE Def(<<>>)
  /\ compilerOptions = Undefined
  /\ program = Undefined
  /\ calls = [c \in Calls |-> Idle]
  /\ configStarts = 0
  /\ last = [hook |-> "none"]

\* options(inputOptions)
Options(x) ==
  LET r == optionsHook(gen, x, input)
  IN  /\ input' = r.input
      /\ last' = [hook |-> "options", arg |-> x, outcome |-> r.outcome]
      /\ UNCHANGED <<gen, options, compilerOptions, program, calls, configStarts>>

\* What one step of a transform call did.
Step(id, at) ==
  [hook |-> "transform", id |-> id, at |-> at,
   configStarted |-> FALSE, file |-> NoRead, config |-> <<>>,
   configReport |-> NoReport,
   built |-> FALSE, sourceFile |-> FALSE, diags |-> <<>>, report |-> NoReport,
   transpiled |-> FALSE, outcome |-> "await", result |-> <<>>]

\* The step ends the call.
Ends(c, ev) ==
  /\ calls' = [calls EXCEPT ![c] = Done]
  /\ last' = ev

\* The step suspends the call at an await.
Awaits(c, id, pc, ev) ==
  /\ calls' = [calls EXCEPT ![c] = [pc |-> pc, id |-> id]]
  /\ last' = ev

\* From program.getSourceFile(id) to the return, with the program and the
\* options in force.
Finish(c, id, prog, co, ev) ==
  IF getSourceFile(prog, id)
  THEN \E diags \in PreEmitDiagnostics(id) :
         LET rep == printDiagnostics(diags, TRUE)
             e1  == [ev EXCEPT !.sourceFile = TRUE, !.diags = diags, !.report = rep]
         IN  IF rep.outcome = "sinkError"
               THEN Ends(c, [e1 EXCEPT !.outcome = "sinkError"])
             ELSE Ends(c, [e1 EXCEPT !.transpiled = TRUE, !.outcome = "returned",
                              !.result = Def(transformResult(transpileModule(co)))])
  ELSE Ends(c, [ev EXCEPT !.transpiled = TRUE, !.outcome = "returned",
                   !.result = Def(transformResult(transpileModule(co)))])

\* From if (!program) on: suspend at the glob, or finish with the program.
FromProgramCheck(c, id, co, ev) ==
  IF ~IsDef(program)
    THEN Awaits(c, id, "glob", ev) /\ UNCHANGED program
  ELSE Finish(c, id, Val(program), co, ev) /\ UNCHANGED program

\* transform(source, id) up to its first await, or to its end.
TransformStart(c, id) ==
  /\ calls[c].pc = "idle"
  /\ \A b \in 1..(c - 1) : calls[b].pc # "idle"
  /\ UNCHANGED <<gen, options, input>>
  /\ IF ~isTsFile(gen, id)
       THEN /\ Ends(c, [Step(id, "start") EXCEPT !.outcome = "declined"])
            /\ UNCHANGED <<compilerOptions, program, configStarts>>
     ELSE IF ~IsDef(compilerOptions)
       THEN /\ Awaits(c, id, "config",
                      [Step(id, "start") EXCEPT !.configStarted = TRUE])
            /\ configStarts' = configStarts + 1
            /\ UNCHANGED <<compilerOptions, program>>
     ELSE /\ FromProgramCheck(c, id, compilerOptions, Step(id, "start"))
          /\ UNCHANGED <<compilerOptions, configStarts>>

\* The reads a resolution can make: none when the plugin options carry the
\* compiler options.
ConfigReads == IF UsesExplicitOptions(gen, options) THEN {NoRead} ELSE ConfigFiles

\* await getCompilerOptions(options) settles.
ConfigDone(c, file) ==
  /\ calls[c].pc = "config"
  /\ file \in ConfigReads
  /\ UNCHANGED <<gen, options, input, configStarts>>
  /\ LET id == calls[c].id
         r  == getCompilerOptions(gen, options, file)
         ev == [Step(id, "config") EXCEPT !.file = file, !.config = <<r>>]
     IN  IF r.ok
           THEN /\ compilerOptions' = Def(r.value)
                /\ FromProgramCheck(c, id, Def(r.value), ev)
         ELSE LET rep == reportConfigFailure(gen, r)
                  e1  == [ev EXCEPT !.configReport = rep]
              IN  /\ UNCHANGED compilerOptions
                  /\ IF rep.outcome = "return"
                       THEN FromProgramCheck(c, id, compilerOptions, e1)
                     ELSE /\ Ends(c, [e1 EXCEPT !.outcome = rep.outcome])
                          /\ UNCHANGED program

\* await glob(...) settles: files.push(...input), createProgram, and on.
GlobDone(c) ==
  /\ calls[c].pc = "glob"
  /\ UNCHANGED <<gen, options, input, compilerOptions, configStarts>>
  /\ LET id == calls[c].id
         ev == Step(id, "glob")
     IN  IF ~IsDef(input)
           THEN /\ Ends(c, [ev EXCEPT !.outcome = "TypeError"])
                /\ UNCHANGED program
         ELSE \E constructs \in createProgramOutcomes(compilerOptions) :
                IF ~constructs
                  THEN /\ Ends(c, [ev EXCEPT !.outcome = "TypeError"])
                       /\ UNCHANGED program
                ELSE LET prog == createProgram(
                                   IF IsDef(program) THEN Val(program).serial + 1 ELSE 1,
                                   declarationFiles \o Val(input), compilerOptions)
                     IN  /\ program' = Def(prog)
                         /\ Finish(c, id, prog, compilerOptions,
                                   [ev EXCEPT !.built = TRUE])

\* A resolveId that would answer from the program once it is built, for contrast.
ResolveId_FromProgram(importee, importer, disk) ==
  /\ last' = [hook |-> "resolveId", importee |-> importee, importer |-> importer,
              disk |-> disk,
              r |-> IF IsDef(program) THEN Deferred
                    ELSE resolveId(gen, importee, importer, disk)]
  /\ UNCHANGED <<gen, options, input, compilerOptions, program, calls, configStarts>>

\* resolveId(importee, importer), with the disk as it is during the call.
ResolveId(importee, importer, disk) ==
  /\ last' = [hook |-> "resolveId", importee |-> importee, importer |-> importer,
              disk |-> disk, r |-> resolveId(gen, importee, importer, disk)]
  /\ UNCHANGED <<gen, options, input, compilerOptions, program, calls, configStarts>>

\* The imports the bundler resolves while it builds.
BuildImportees == {<<".", "/", "b">>}
BuildImporters == {Undefined, Def(pathResolve(cwd, a_ts))}
BuildDisks     == {{pathResolve(cwd, b_tsx)}}

Next ==
  \/ \E x \in InputOptions : Options(x)
  \/ \E c \in Calls, id \in TransformIds : TransformStart(c, id)
  \/ \E c \in Calls, file \in ConfigFiles \cup {NoRead} : ConfigDone(c, file)
  \/ \E c \in Calls : GlobDone(c)
  \/ \E importee \in BuildImportees, importer \in BuildImporters, disk \in BuildDisks :
       ResolveId(importee, importer, disk)

Spec == Init /\ [][Next]_vars

(***************************************************************************)
(* resolveId on its own: every importee, importer and disk of the sets     *)
(* below, in every generation.                                             *)
(***************************************************************************)
Importees ==
  {<<".", "/", "b">>,                    \* ./b
   <<"b">>,                              \* b
   <<".", ".", "/", "p", "/", "b">>,     \* ../p/b
   <<".", "/", "b", ".", "js">>,         \* ./b.js
   <<".", "/", "b", ".", "jsx">>,        \* ./b.jsx
   <<".", "/", "b", ".", "cjs">>,        \* ./b.cjs
   <<".", "/", "b", ".", "mjs">>,        \* ./b.mjs
   <<".", "/", "b", ".", "ts">>,         \* ./b.ts
   <<".", "/", "b", ".", "json">>,       \* ./b.json
   <<".", "/", "b", ".", "js", "/">>,    \* ./b.js/
   <<".", "/", ".", "js">>}              \* ./.js

Importers ==
  {Undefined,
   Def(<<>>),
   Def(pathResolve(cwd, a_ts)),
   Def(pathResolve(cwd, <<"a", ".", "tsx">>)),
   Def(pathResolve(cwd, <<"a", ".", "mts">>)),
   Def(pathResolve(cwd, x_js))}

DiskFiles ==
  {pathResolve(cwd, <<"b", ".", "ts">>),
   pathResolve(cwd, <<"b", ".", "tsx">>),
   pathResolve(cwd, <<"b", "/", "index", ".", "ts">>),
   pathResolve(cwd, <<"b", "/", "index", ".", "tsx">>),
   pathResolve(cwd, <<"b", ".", "mts">>),
   pathResolve(cwd, <<"b", "undefined">>)}

Disks == SUBSET DiskFiles

\* One call per behaviour: the hook reads nothing an earlier call wrote.
NextResolve ==
  /\ last.hook = "none"
  /\ \E importee \in Importees, importer \in Importers, disk \in Disks :
       ResolveId(importee, importer, disk)

SpecResolve == Init /\ [][NextResolve]_vars

(***************************************************************************)
(* printDiagnostics on its own: every sequence of up to MaxDiags            *)
(* diagnostics of the sets below, with the sink and, where the generation   *)
(* calls it so, without.                                                    *)
(***************************************************************************)
MaxDiags == 3

\* ts.DiagnosticCategory
Categories == {"Warning", "Error", "Suggestion", "Message"}

RECURSIVE SeqsUpTo(_, _)
SeqsUpTo(S, n) ==
  IF n = 0 THEN {<<>>}
  ELSE LET shorter == SeqsUpTo(S, n - 1)
       IN  shorter \cup {Append(s, x) : s \in {t \in shorter : Len(t) = n - 1}, x \in S}

\* Diagnostics of a file at one offset, told apart by their message.
PlainDiagnostics ==
  {Diagnostic(c, m, Def(pathResolve(cwd, a_ts)), Def(LineLength + 1)) :
     c \in Categories, m \in {"m1", "m2"}}

\* Single diagnostics with and without a file, without an offset and at
\* every offset of the first two lines and the start of the third.
LocatedDiagnostics ==
  {Diagnostic(c, "m", f, s) :
     c \in {"Warning", "Error"},
     f \in {Undefined, Def(pathResolve(cwd, a_ts))},
     s \in {Undefined} \cup {Def(n) : n \in 0..(2 * LineLength)}}

ReportedSequences ==
  SeqsUpTo(PlainDiagnostics, MaxDiags) \cup {<<d>> : d \in LocatedDiagnostics}

\* g4's printDiagnostics is only ever called with the sink.
Contexts == IF gen = "g4" THEN {TRUE} ELSE BOOLEAN

\* printDiagnostics(diagnostics, context)
PrintDiagnostics(diagnostics, context) ==
  /\ last' = [hook |-> "printDiagnostics", diagnostics |-> diagnostics,
              context |-> context, r |-> printDiagnostics(diagnostics, context)]
  /\ UNCHANGED <<gen, options, input, compilerOptions, program, calls, configStarts>>

\* One call per behaviour: the reporter keeps no state.
NextReport ==
  /\ last.hook = "none"
  /\ \E diagnostics \in ReportedSequences, context \in Contexts :
       PrintDiagnostics(diagnostics, context)

SpecReport == Init /\ [][NextReport]_vars

(***************************************************************************)
(* The claims.                                                             *)
(***************************************************************************)
AnyError(diagnostics) ==
  \E i \in 1..Len(diagnostics) : diagnostics[i].category = "Error"

TransformStep == last.hook = "transform"
ConfigSettled == TransformStep /\ last.at = "config"
ConfigFailed  == ConfigSettled /\ ~Val(last.config).ok
ConfigOk      == ConfigSettled /\ Val(last.config).ok
ResolveStep   == last.hook = "resolveId"

\* C1: within one plugin instance the program is constructed at most once,
\* whatever the sequence and interleaving of transform calls.
C1_ProgramBuiltAtMostOnce ==
  IsDef(program) => Val(program).serial <= 1

\* C2: getCompilerOptions is called at most once per build: never a second
\* time, neither while a resolution is pending nor after one failed.
C2_ConfigResolvedAtMostOnce ==
  configStarts <= 1

\* C3 (as claimed): when configuration resolution fails during a transform,
\* that call is not aborted: it goes on past the catch to the program and
\* the transpile.
C3_FailureContinuesDegraded ==
  ConfigFailed => (last.outcome = "await" \/ last.sourceFile \/ last.transpiled)

\* C3 (amended): when configuration resolution fails during a transform, the
\* call ends at the catch, with no program built, nothing transpiled and no
\* {code, map}: by a thrown structured failure made of the first diagnostic
\* where the reporter has no sink (a TypeError in g1 when the rejection is the
\* raw read error), through the sink's error channel in g4.  Only in g4, and
\* only when no diagnostic is Error-category, does the call go on past the
\* catch.
C3_FailureAbortsTransform ==
  ConfigFailed =>
    LET r == Val(last.config)
    IN  IF gen = "g4" /\ ~AnyError(r.thrown)
          THEN /\ last.configReport.outcome = "return"
               /\ last.outcome = "await" \/ last.sourceFile \/ last.transpiled
        ELSE /\ ~last.built /\ ~last.sourceFile /\ ~last.transpiled
             /\ last.result = <<>>
             /\ last.outcome = IF gen = "g4" THEN "sinkError"
                               ELSE IF r.iterable THEN "throw" ELSE "TypeError"
             /\ last.outcome = "throw" =>
                  last.configReport.thrown = <<Failure(r.thrown[1])>>

C3_Witness ==
  ConfigFailed /\ gen = "g3" /\ last.outcome = "throw"

\* C4: a transform of a file with a source-file entry in the program is
\* aborted through the sink's error channel, before the transpile and with
\* no {code, map}, when its pre-emit diagnostics hold an Error; with only
\* warnings and other categories it returns {code, map}.
C4_ErrorsAbortWarningsDoNot ==
  (TransformStep /\ last.sourceFile) =>
    IF AnyError(last.diags)
      THEN /\ last.outcome = "sinkError"
           /\ ~last.transpiled
           /\ last.result = <<>>
           /\ last.report.calls[Len(last.report.calls)].channel = "error"
    ELSE /\ last.outcome = "returned"
         /\ last.transpiled
         /\ IsDef(last.result)
         /\ \A i \in 1..Len(last.report.calls) : last.report.calls[i].channel = "warn"

C4_Witness ==
  /\ TransformStep /\ last.sourceFile
  /\ Len(last.diags) = 2
  /\ last.diags[1].category = "Warning" /\ last.diags[2].category = "Error"
  /\ last.outcome = "sinkError"

FirstExisting(candidates, disk) ==
  LET S == {i \in 1..Len(candidates) : candidates[i] \in disk}
  IN  IF S = {} THEN Undefined ELSE Def(candidates[Min(S)])

\* C5: extension-preserving resolveId (g1, g2, g3): an importee without an
\* extension, from an importer with a recognized extension, resolves to the
\* first that exists of importee.ts, importee.tsx, importee/index.ts,
\* importee/index.tsx, undefined when none does; an importee with an
\* extension resolves to undefined.
C5_FirstExistingCandidate ==
  (ResolveStep /\ gen \in {"g1", "g2", "g3"}) =>
    IF extname(last.importee) # <<>>
      THEN last.r.outcome = "return" /\ last.r.id = Undefined
    ELSE (IsDef(last.importer) /\ isTsFile(gen, Val(last.importer))) =>
           LET dir   == dirname(Val(last.importer))
               index == pathJoin(last.importee, <<"index">>)
           IN  /\ last.r.outcome = "return"
               /\ last.r.id = FirstExisting(
                    <<pathResolve(dir, last.importee \o ts),
                      pathResolve(dir, last.importee \o tsx),
                      pathResolve(dir, index \o ts),
                      pathResolve(dir, index \o tsx)>>, last.disk)

\* The importee with the extension that path.extname reports replaced by its pair.
WithPairedExtension(importee) ==
  LET e   == extname(importee)
      end == Max({i \in 1..Len(importee) : importee[i] # "/"})
  IN  SubSeq(importee, 1, end - Len(e)) \o jsExtensions[e]
        \o SubSeq(importee, end + 1, Len(importee))

\* C6: extension-remapping resolveId (g4), for a recognized importer: the
\* result is undefined unless the importee's extension is .js, .jsx, .cjs or
\* .mjs; then it is undefined or the path with exactly that extension
\* replaced by its pair, and a path returned exists on disk.
C6_OnlyPairedExtension ==
  (ResolveStep /\ gen = "g4" /\ IsDef(last.importer)
     /\ isTsFile(gen, Val(last.importer))) =>
    /\ last.r.outcome = "return"
    /\ IsDef(last.r.id) => Val(last.r.id) \in last.disk
    /\ IF extname(last.importee) \in DOMAIN jsExtensions
         THEN \/ last.r.id = Undefined
              \/ last.r.id = Def(pathResolve(dirname(Val(last.importer)),
                                             WithPairedExtension(last.importee)))
       ELSE last.r.id = Undefined

\* C7: resolveId with an absent importer, or one whose extension is not
\* recognized, returns undefined without an error and without a probe.
C7_UnrecognizedImporterDefers ==
  (ResolveStep /\ (~IsDef(last.importer) \/ ~isTsFile(gen, Val(last.importer)))) =>
    /\ last.r.outcome = "return"
    /\ last.r.id = Undefined
    /\ last.r.probes = <<>>

\* C8: an options call with a missing or falsy input leaves the captured
\* entry-point set as it was.
C8_FalsyInputKeepsEntryPoints ==
  [][(last'.hook = "options" /\ IsFalsy(last'.arg)) => input' = input]_vars

OverlayKeys == {"module", "moduleResolution", "sourceMap", "importHelpers"}

HasFixedOverlay(o) ==
  /\ OverlayKeys \subseteq DOMAIN o
  /\ o.importHelpers = "true"
  /\ o.sourceMap = "true"
  /\ o.module = (IF gen \in {"g1", "g2"} THEN "ES2015" ELSE "ES2022")
  /\ o.moduleResolution = (IF gen = "g4" THEN "Bundler" ELSE "NodeJs")

\* The configuration the user supplied to the resolution that settled last.
UserConfig ==
  IF UsesExplicitOptions(gen, options) THEN Val(Val(options).compilerOptions)
  ELSE IF last.file.read = "ok" /\ last.file.text = "json" THEN last.file.json
  ELSE EmptyObject

\* C9: every configuration a successful resolution returns, and so every
\* memoized one, holds the four overlay keys with their fixed values,
\* whatever the user's configuration says for them, and keeps each of its
\* other keys.
C9_OverlayWins ==
  /\ IsDef(compilerOptions) => HasFixedOverlay(Val(compilerOptions))
  /\ ConfigOk =>
       LET value == Val(last.config).value
       IN  /\ HasFixedOverlay(value)
           /\ compilerOptions = Def(value)
           /\ \A k \in DOMAIN UserConfig \ OverlayKeys :
                k \in DOMAIN value /\ value[k] = optionDeclarations[k][UserConfig[k]]

C9_Witness ==
  /\ ConfigOk
  /\ {"strict", "module", "sourceMap"} \subseteq DOMAIN UserConfig
  /\ UserConfig.module = "commonjs"

\* C10: once built, the program is frozen: no later hook step replaces or
\* rebuilds it.
C10_ProgramFrozen ==
  [][IsDef(program) => program' = program]_vars

\* The extensions a generation recognizes as TypeScript source.
RecognizedExtensions ==
  IF gen = "g4" THEN tsExtensions
  ELSE {extensions(gen)[i] : i \in 1..Len(extensions(gen))}

\* C11: a transform call on a file whose extension is not recognized returns
\* nothing and changes no build state: no configuration resolution is
\* started, no program built, the entry points stay, the sink is not called.
C11_UnrecognizedTransformDeclines ==
  [][(last'.hook = "transform" /\ last'.at = "start"
        /\ extname(last'.id) \notin RecognizedExtensions) =>
       /\ last'.outcome = "declined"
       /\ last'.result = <<>>
       /\ ~last'.configStarted /\ ~last'.built /\ ~last'.transpiled
       /\ last'.report = NoReport /\ last'.configReport = NoReport
       /\ UNCHANGED <<input, compilerOptions, program, configStarts>>]_vars

C11_Witness ==
  /\ TransformStep /\ last.outcome = "declined"
  /\ extname(last.id) \notin RecognizedExtensions
  /\ ~IsDef(compilerOptions) /\ configStarts = 0

ReportStep == last.hook = "printDiagnostics"

\* What a live sink is to receive: a warning for each Warning before the
\* first Error, in order, then that Error.
FirstError(diagnostics) ==
  LET E == {i \in 1..Len(diagnostics) : diagnostics[i].category = "Error"}
  IN  IF E = {} THEN 0 ELSE Min(E)

ExpectedSinkCalls(diagnostics) ==
  LET e        == FirstError(diagnostics)
      before   == IF e = 0 THEN diagnostics ELSE SubSeq(diagnostics, 1, e - 1)
      warnings == SelectSeq(before, LAMBDA d : d.category = "Warning")
  IN  [i \in 1..Len(warnings) |->
         [channel |-> "warn", message |-> warnings[i].messageText,
          loc |-> location(warnings[i])]]
      \o (IF e = 0 THEN <<>>
          ELSE <<[channel |-> "error", message |-> diagnostics[e].messageText,
                  loc |-> location(diagnostics[e])]>>)

\* C12: with a live sink, a diagnostic reaches the error channel only if it
\* is Error-category and the warning channel only if it is Warning-category,
\* any other category reaches neither, and every Warning before the first
\* Error is forwarded exactly once, in sequence order.
C12_ChannelsByCategory ==
  (ReportStep /\ last.context) =>
    /\ last.r.calls = ExpectedSinkCalls(last.diagnostics)
    /\ last.r.thrown = <<>>
    /\ last.r.outcome = (IF FirstError(last.diagnostics) = 0 THEN "return"
                         ELSE "sinkError")

C12_Witness ==
  /\ ReportStep /\ last.context
  /\ Len(last.diagnostics) = 3
  /\ last.diagnostics[1].category = "Warning"
  /\ last.diagnostics[2].category = "Suggestion"
  /\ last.diagnostics[3].category = "Warning"
  /\ last.diagnostics[1].messageText # last.diagnostics[3].messageText
  /\ Len(last.r.calls) = 2

\* C13: without a sink, over a sequence of n >= 1 diagnostics, each of the n
\* is surfaced as a thrown structured failure {message, id, loc, frame};
\* none is dropped.
C13_EachDiagnosticThrown ==
  (ReportStep /\ ~last.context /\ Len(last.diagnostics) >= 1) =>
    /\ last.r.outcome = "throw"
    /\ last.r.thrown = [i \in 1..Len(last.diagnostics) |->
                          Failure(last.diagnostics[i])]

\* C14: without explicit compilerOptions, a failed read of the config file
\* makes the resolution succeed with the overlay keys alone if and only if
\* the failure is file-not-found; any other read failure makes it reject
\* with exactly one Error diagnostic carrying the failure message.
C14_OnlyNotFoundIsEmpty ==
  (ConfigSettled /\ ~UsesExplicitOptions(gen, options) /\ last.file.read # "ok") =>
    LET r == Val(last.config)
    IN  IF last.file.read = "ENOENT"
          THEN /\ r.ok
               /\ DOMAIN r.value = OverlayKeys
               /\ HasFixedOverlay(r.value)
        ELSE /\ ~r.ok
             /\ r.iterable
             /\ Len(r.thrown) = 1
             /\ r.thrown[1].category = "Error"
             /\ r.thrown[1].messageText = last.file.read
             /\ r.value = EmptyObject

C16_EntryPointsWrittenOnce ==
  [][(last.hook = "options" /\ ~IsFalsy(last.arg)
        /\ last'.hook = "options" /\ ~IsFalsy(last'.arg))
       => input' = input]_vars

\* The plugin was created with a compilerOptions field.
ExplicitOptions ==
  IsDef(options) /\ IsDef(Val(options).compilerOptions)

\* C17: when the plugin is created with a compilerOptions field, the config
\* file is never read: the resolution takes its base options from the
\* supplied compilerOptions alone, and rejects with their conversion
\* diagnostics when there are any.
C17_ExplicitOptionsReplaceFile ==
  (ConfigSettled /\ ExplicitOptions) =>
    LET r         == Val(last.config)
        converted == convertCompilerOptionsFromJson(Val(Val(options).compilerOptions))
    IN  /\ ~r.read
        /\ last.file.read = "none"
        /\ IF converted.errors = <<>>
             THEN /\ r.ok
                  /\ \A k \in DOMAIN r.value \ OverlayKeys :
                       k \in DOMAIN converted.options /\ r.value[k] = converted.options[k]
                  /\ DOMAIN converted.options \subseteq DOMAIN r.value
           ELSE ~r.ok /\ r.iterable /\ r.thrown = converted.errors

C17_Witness ==
  /\ ConfigFailed /\ ExplicitOptions
  /\ Len(Val(last.config).thrown) = 1

\* The location the reporter gave the first diagnostic it surfaced.
SurfacedLocation ==
  IF last.context THEN last.r.calls[1].loc ELSE last.r.thrown[1].loc

\* C18: for every diagnostic with a source file and a character offset,
\* offset 0 included, the reporter computes {file, line, column} with a
\* 1-based line and a 0-based column; it computes no location exactly when
\* the diagnostic lacks a file or lacks an offset.
C18_LocationForEveryOffset ==
  (ReportStep /\ Len(last.diagnostics) = 1
     /\ last.diagnostics[1].category \in {"Error", "Warning"}) =>
    LET d == last.diagnostics[1]
    IN  IF IsDef(d.file) /\ IsDef(d.start)
          THEN SurfacedLocation =
                 Def([file   |-> Val(d.file),
                      line   |-> (Val(d.start) \div LineLength) + 1,
                      column |-> Val(d.start) % LineLength])
        ELSE SurfacedLocation = Undefined

\* The transform step got as far as program.getSourceFile(id).
ReachedLookup ==
  /\ TransformStep /\ IsDef(program)
  /\ last.outcome \in {"returned", "sinkError"}
  /\ last.configReport.outcome # "sinkError"

\* The file is no root of the program and no module a root imports.
AbsentFromProgram ==
  \A i \in 1..Len(Val(program).files) :
    LET f == Val(program).files[i]
    IN  f.t = "string" =>
          /\ pathResolve(cwd, f.s) # last.id
          /\ last.id \notin imports(pathResolve(cwd, f.s))

\* C19: a transform of a recognized file with no source-file entry in the
\* program makes no sink call for program diagnostics, still transpiles the
\* file and returns {code, map}, with map null exactly when the transpile
\* produced no source-map text.
C19_AbsentFileStillTranspiles ==
  (ReachedLookup /\ AbsentFromProgram) =>
    LET output == transpileModule(compilerOptions)
    IN  /\ ~last.sourceFile
        /\ last.diags = <<>>
        /\ last.report = NoReport
        /\ last.transpiled
        /\ last.outcome = "returned"
        /\ IsDef(last.result)
        /\ Val(last.result).code = output.outputText
        /\ (Val(last.result).map = Undefined) <=> ~IsDef(output.sourceMapText)

C19_Witness ==
  /\ ReachedLookup /\ AbsentFromProgram
  /\ last.at = "start"
  /\ IsDef(last.result) /\ IsDef(Val(last.result).map)

====
